---- MODULE Spec2Model ----
(***************************************************************************)
(* Model of advanced-vector/vector.h: RawMemory<T> (raw storage) and       *)
(* Vector<T> (element lifetime on top of it).                              *)
(*                                                                         *)
(* The heap is explicit: a buffer is a heap cell holding one slot per      *)
(* element, and a slot is either Raw (no constructed element) or holds an  *)
(* element value.  Every constructor call, destructor call and assignment  *)
(* of the source is a primitive below; a Vector method is the composition  *)
(* of primitives the source performs, including the unwinding of locals    *)
(* and the catch blocks when an element constructor throws.                *)
(*                                                                         *)
(* The element type T is a parameter of the template: it is chosen in Init *)
(* and never changes.  Lifetime violations (a destructor on a Raw slot, a  *)
(* read of a Raw slot, a buffer released with live elements, a vector left *)
(* with a Raw slot below size_ or a constructed one above it, ...) are     *)
(* undefined behaviour, or lead to it in the next call: they are recorded  *)
(* in errs, and no behaviour is explored past the first one.               *)
(***************************************************************************)
EXTENDS Integers, Sequences, FiniteSets, TLC

VARIABLES T, alive, v, heap, last

vars == <<T, alive, v, heap, last>>

\* ------------------------------------------------------------------ bounds
MaxCap == 4
MaxVal == 1
MaxThrow == 2
MaxOther == 2
NAddr == 3

Values == 0..MaxVal
Addrs == 1..NAddr

\* ------------------------------------------------------- element type T
\* Value of a value-initialized T, and the value a moved-from T is left with.
DefaultVal == 0
MovedFrom == 0
\* A slot that holds no constructed element.
Raw == 0 - 1

\* The element types: the traits vector.h inspects (nothrow_move, copyable)
\* and whether T is trivially copyable (a move is a copy, nothing throws).
Types ==
  { [name |-> "Int",       nothrow_move |-> TRUE,  copyable |-> TRUE,  trivial |-> TRUE],
    [name |-> "Str",       nothrow_move |-> TRUE,  copyable |-> TRUE,  trivial |-> FALSE],
    [name |-> "A",         nothrow_move |-> FALSE, copyable |-> TRUE,  trivial |-> FALSE],
    [name |-> "MoveThrow", nothrow_move |-> FALSE, copyable |-> FALSE, trivial |-> FALSE] }

\* Variant of RelocateByMove that looks at the move constructor only.
RelocateNothrowOnly == T.nothrow_move

\* std::is_nothrow_move_constructible_v<T> || !std::is_copy_constructible_v<T>
RelocateByMove == T.nothrow_move \/ ~T.copyable

CopyThrows == ~T.trivial
ArgsThrows == ~T.trivial
MoveThrows == ~T.trivial /\ ~T.nothrow_move

\* ------------------------------------------------------------------ heap
Null == 0
FreeCell == [live |-> FALSE, slots |-> <<>>]

NullRaw == [buffer_ |-> Null, capacity_ |-> 0]
NoVector == [data_ |-> NullRaw, size_ |-> 0]

InBounds(h, a, i) == a \in Addrs /\ h[a].live /\ i >= 0 /\ i < Len(h[a].slots)
Live(h, a, i) == InBounds(h, a, i) /\ h[a].slots[i + 1] # Raw

Err(k, e) == [k EXCEPT !.errs = @ \cup {e}]

\* A throwing-capable call: fuel = 1 makes it throw, fuel = 0 never throws.
Throws(k, throwing) == throwing /\ k.fuel = 1
Burn(k, throwing) == [k EXCEPT !.fuel = IF throwing /\ @ > 0 THEN @ - 1 ELSE @]
Raise(k) == [k EXCEPT !.exc = TRUE, !.fuel = 0]

\* RawMemory::Allocate: operator new(n * sizeof(T)), or nullptr when n = 0.
\* The address is returned in k.p.
Allocate(k, n) ==
  IF n = 0 THEN [k EXCEPT !.p = Null]
  ELSE IF k.oom THEN [k EXCEPT !.exc = TRUE, !.oom = FALSE]
  ELSE LET a == CHOOSE x \in Addrs : ~k.heap[x].live /\ \A y \in Addrs : ~k.heap[y].live => x <= y
       IN [k EXCEPT !.heap[a] = [live |-> TRUE, slots |-> [i \in 1..n |-> Raw]],
                    !.p = a, !.nalloc = @ + 1]

\* RawMemory::Deallocate: operator delete(buf); element destructors are not run.
Deallocate(k, buf) ==
  IF buf = Null THEN k
  ELSE IF ~k.heap[buf].live THEN Err(k, "double_free")
  ELSE LET k1 == IF \E i \in 1..Len(k.heap[buf].slots) : k.heap[buf].slots[i] # Raw
                 THEN Err(k, "leak") ELSE k
       IN [k1 EXCEPT !.heap[buf] = FreeCell, !.nfree = @ + 1]

\* RawMemory::Swap
RawSwap(x, y) ==
  [x |-> [buffer_ |-> y.buffer_, capacity_ |-> y.capacity_],
   y |-> [buffer_ |-> x.buffer_, capacity_ |-> x.capacity_]]

\* Variant of RawMoveCtor that copies the fields and leaves the source alone.
RawMoveCtorNoReset(k, other) ==
  [k |-> Deallocate(k, NullRaw.buffer_),
   self |-> [buffer_ |-> other.buffer_, capacity_ |-> other.capacity_],
   other |-> [buffer_ |-> other.buffer_, capacity_ |-> other.capacity_]]

\* RawMemory(RawMemory&& other): Deallocate(buffer_) of the fresh object (null),
\* then exchange both fields with null / 0.
RawMoveCtor(k, other) ==
  [k |-> Deallocate(k, NullRaw.buffer_),
   self |-> [buffer_ |-> other.buffer_, capacity_ |-> other.capacity_],
   other |-> [buffer_ |-> Null, capacity_ |-> 0]]

\* Variant of RawMoveAssign whose temporary does not release what it holds.
RawMoveAssignKeep(k, self, rhs) ==
  LET mc == RawMoveCtor(k, rhs)
      sw == RawSwap(self, mc.self)
  IN [k |-> mc.k, self |-> sw.x, rhs |-> mc.other]

\* RawMemory::operator=(RawMemory&& rhs): tmp(std::move(rhs)); Swap(tmp); ~tmp.
RawMoveAssign(k, self, rhs) ==
  LET mc == RawMoveCtor(k, rhs)
      sw == RawSwap(self, mc.self)
  IN [k |-> Deallocate(mc.k, sw.y.buffer_), self |-> sw.x, rhs |-> mc.other]

\* a = std::move(a): rhs is *this, so the object tmp emptied is the one Swap
\* then fills again.
RawMoveAssignSelf(k, self) ==
  LET mc == RawMoveCtor(k, self)
      sw == RawSwap(mc.other, mc.self)
  IN [k |-> Deallocate(mc.k, sw.y.buffer_), self |-> sw.x, rhs |-> sw.x]

\* RawMemory(size_t capacity): the object built from the address Allocate left
\* in k.p.
RawCtor(k, n) == [buffer_ |-> k.p, capacity_ |-> n]

\* ---------------------------------------------------- element primitives
\* new (a + i) T(...) producing value val.
Construct(k, a, i, val, throwing) ==
  IF Throws(k, throwing) THEN Raise(k)
  ELSE IF ~InBounds(k.heap, a, i) THEN Err(Burn(k, throwing), "out_of_bounds")
  ELSE IF k.heap[a].slots[i + 1] # Raw THEN Err(Burn(k, throwing), "construct_over_live")
  ELSE [Burn(k, throwing) EXCEPT !.heap[a].slots[i + 1] = val, !.nctor = @ + 1]

\* new (da + di) T(*(sa + si)) : copy constructor.
CopyConstruct(k, sa, si, da, di) ==
  IF ~Live(k.heap, sa, si) THEN Err(k, "read_raw")
  ELSE Construct(k, da, di, k.heap[sa].slots[si + 1], CopyThrows)

\* new (da + di) T(std::move(*(sa + si))) : move constructor; the source is
\* left moved-from unless T is trivially copyable.
MoveConstruct(k, sa, si, da, di) ==
  LET Leave(k1) == IF k1.exc \/ k1.errs # k.errs \/ T.trivial THEN k1
                   ELSE [k1 EXCEPT !.heap[sa].slots[si + 1] = MovedFrom, !.nmove = @ + 1]
  IN IF ~Live(k.heap, sa, si) THEN Err(k, "read_raw")
     ELSE Leave(Construct(k, da, di, k.heap[sa].slots[si + 1], MoveThrows))

\* (a + i)->~T()
DestroyAt(k, a, i) ==
  IF ~Live(k.heap, a, i) THEN Err(k, "destroy_raw")
  ELSE [k EXCEPT !.heap[a].slots[i + 1] = Raw, !.dlog = Append(@, <<a, i>>)]

\* std::destroy_n(a + i, n)
RECURSIVE DestroyN(_, _, _, _)
DestroyN(k, a, i, n) ==
  IF n <= 0 THEN k ELSE DestroyN(DestroyAt(k, a, i), a, i + 1, n - 1)

\* *(da + di) = std::move(*(sa + si)) : move assignment.
MoveAssignElem(k, sa, si, da, di) ==
  LET Leave(k2) == IF T.trivial \/ (sa = da /\ si = di) THEN k2
                   ELSE [k2 EXCEPT !.heap[sa].slots[si + 1] = MovedFrom, !.nmove = @ + 1]
  IN IF ~Live(k.heap, sa, si) THEN Err(k, "read_raw")
     ELSE IF ~Live(k.heap, da, di) THEN Err(k, "assign_raw")
     ELSE IF Throws(k, MoveThrows) THEN Raise(k)
     ELSE Leave([Burn(k, MoveThrows) EXCEPT !.heap[da].slots[di + 1] = k.heap[sa].slots[si + 1],
                                            !.nassign = @ + 1])

\* *(da + di) = *(sa + si) : copy assignment.
CopyAssignElem(k, sa, si, da, di) ==
  IF ~Live(k.heap, sa, si) THEN Err(k, "read_raw")
  ELSE IF ~Live(k.heap, da, di) THEN Err(k, "assign_raw")
  ELSE IF Throws(k, CopyThrows) THEN Raise(k)
  ELSE [Burn(k, CopyThrows) EXCEPT !.heap[da].slots[di + 1] = k.heap[sa].slots[si + 1],
                                   !.nassign = @ + 1]

\* ------------------------------------------------------- <memory> / <algorithm>
\* In the loops below k is the state after the first j steps: when step j - 1
\* threw (k.exc), the loop ends there.

\* Variant of UninitLoop that rethrows without destroying what it constructed.
RECURSIVE UninitLoopNoCleanup(_, _, _, _, _, _, _, _)
UninitLoopNoCleanup(k, move, sa, si, n, da, di, j) ==
  IF k.exc \/ j >= n THEN k
  ELSE UninitLoopNoCleanup(IF move THEN MoveConstruct(k, sa, si + j, da, di + j)
                                   ELSE CopyConstruct(k, sa, si + j, da, di + j),
                           move, sa, si, n, da, di, j + 1)

\* std::uninitialized_copy_n / std::uninitialized_move_n: construct n elements
\* at da + di from sa + si; if a constructor throws, the elements constructed
\* so far are destroyed and the exception is rethrown.
RECURSIVE UninitLoop(_, _, _, _, _, _, _, _)
UninitLoop(k, move, sa, si, n, da, di, j) ==
  IF k.exc THEN DestroyN(k, da, di, j - 1)
  ELSE IF j >= n THEN k
  ELSE UninitLoop(IF move THEN MoveConstruct(k, sa, si + j, da, di + j)
                          ELSE CopyConstruct(k, sa, si + j, da, di + j),
                  move, sa, si, n, da, di, j + 1)

UninitializedCopyN(k, sa, si, n, da, di) == UninitLoop(k, FALSE, sa, si, n, da, di, 0)
UninitializedMoveN(k, sa, si, n, da, di) == UninitLoop(k, TRUE, sa, si, n, da, di, 0)

\* std::uninitialized_move_n from a const T*: std::move of a const T yields
\* const T&&, which selects T's copy constructor.
UninitializedMoveNConst(k, sa, si, n, da, di) == UninitLoop(k, FALSE, sa, si, n, da, di, 0)

\* std::uninitialized_value_construct_n(a + i, n)
RECURSIVE ValueLoop(_, _, _, _, _)
ValueLoop(k, a, i, n, j) ==
  IF k.exc THEN DestroyN(k, a, i, j - 1)
  ELSE IF j >= n THEN k
  ELSE ValueLoop(Construct(k, a, i + j, DefaultVal, ArgsThrows), a, i, n, j + 1)

UninitializedValueConstructN(k, a, i, n) == ValueLoop(k, a, i, n, 0)

\* std::copy(sa + si, sa + si + n, da + di): copy assignment, front to back.
RECURSIVE StdCopy(_, _, _, _, _, _)
StdCopy(k, sa, si, n, da, di) ==
  IF k.exc \/ n <= 0 THEN k
  ELSE StdCopy(CopyAssignElem(k, sa, si, da, di), sa, si + 1, n - 1, da, di + 1)

\* std::move(sa + si, sa + si + n, da + di): move assignment, front to back.
RECURSIVE StdMove(_, _, _, _, _, _)
StdMove(k, sa, si, n, da, di) ==
  IF k.exc \/ n <= 0 THEN k
  ELSE StdMove(MoveAssignElem(k, sa, si, da, di), sa, si + 1, n - 1, da, di + 1)

\* std::move_backward(sa + si, sa + si + n, da + dlast): move assignment, back
\* to front; the last source element goes to da + dlast - 1.
RECURSIVE StdMoveBackward(_, _, _, _, _, _)
StdMoveBackward(k, sa, si, n, da, dlast) ==
  IF k.exc \/ n <= 0 THEN k
  ELSE StdMoveBackward(MoveAssignElem(k, sa, si + n - 1, da, dlast - 1),
                       sa, si, n - 1, da, dlast - 1)

\* ------------------------------------------------------------- Vector<T>
\* A method is the sequence of its statements; a statement after a call that
\* can throw is an operator of the state that call leaves (k1, k2, ...), and is
\* skipped when the call threw.  The buffer of a local RawMemory new_data is
\* k.p, the address its allocation returned.
Size(vec) == vec.size_
Capacity(vec) == vec.data_.capacity_
GetAddress(vec) == vec.data_.buffer_

\* RawMemory::operator[] / operator+ : the asserts on the offset.
RawIndex(k, raw, index) == IF index < raw.capacity_ THEN k ELSE Err(k, "assert_index")
RawPlus(k, raw, offset) == IF offset <= raw.capacity_ THEN k ELSE Err(k, "assert_offset")

\* A cursor (T*): a buffer address and an offset into it.
Cursor(buf, idx) == [buf |-> buf, idx |-> idx]
NoCursor == Cursor(Null, 0 - 1)

\* size_ = n, reached when nothing threw before it.
SetSize(k, n) == IF k.exc THEN k ELSE [k EXCEPT !.v.size_ = n]

\* return &data_[index], reached when nothing threw before it.
ReturnCursor(k, index) ==
  IF k.exc THEN k
  ELSE [RawIndex(k, k.v.data_, index) EXCEPT !.ret = Cursor(GetAddress(k.v), index)]

\* Vector::~Vector, then ~RawMemory of data_.
VectorDtor(k, vec) ==
  Deallocate(DestroyN(k, GetAddress(vec), 0, vec.size_), GetAddress(vec))

\* Variant of Reserve that grows to at least twice the old capacity.
ReserveAtLeastDouble(k, new_capacity) ==
  LET cap == IF new_capacity >= 2 * Capacity(k.v) THEN new_capacity
             ELSE 2 * Capacity(k.v)
      Commit(k2) ==
        IF k2.exc THEN Deallocate(k2, k2.p)
        ELSE LET sw == RawSwap(k2.v.data_, [buffer_ |-> k2.p, capacity_ |-> cap])
             IN Deallocate(DestroyN([k2 EXCEPT !.v.data_ = sw.x], sw.y.buffer_, 0, k2.v.size_),
                           sw.y.buffer_)
      Relocate(k1) ==
        IF k1.exc THEN k1
        ELSE Commit(IF RelocateByMove
                    THEN UninitializedMoveN(k1, GetAddress(k1.v), 0, k1.v.size_, k1.p, 0)
                    ELSE UninitializedCopyN(k1, GetAddress(k1.v), 0, k1.v.size_, k1.p, 0))
  IN IF new_capacity <= Capacity(k.v) THEN k
     ELSE Relocate(Allocate(k, cap))

\* Vector::Reserve
Reserve(k, new_capacity) ==
  LET \* data_.Swap(new_data); destroy_n(new_data.GetAddress(), size_); ~new_data
      Commit(k2) ==
        IF k2.exc THEN Deallocate(k2, k2.p)
        ELSE LET sw == RawSwap(k2.v.data_, [buffer_ |-> k2.p, capacity_ |-> new_capacity])
             IN Deallocate(DestroyN([k2 EXCEPT !.v.data_ = sw.x], sw.y.buffer_, 0, k2.v.size_),
                           sw.y.buffer_)
      Relocate(k1) ==
        IF k1.exc THEN k1
        ELSE Commit(IF RelocateByMove
                    THEN UninitializedMoveN(k1, GetAddress(k1.v), 0, k1.v.size_, k1.p, 0)
                    ELSE UninitializedCopyN(k1, GetAddress(k1.v), 0, k1.v.size_, k1.p, 0))
  IN IF new_capacity <= Capacity(k.v) THEN k
     ELSE Relocate(Allocate(k, new_capacity))

\* Variant of Resize that never reserves.
ResizeNoReserve(k, new_size) ==
  IF k.v.size_ < new_size
  THEN SetSize(UninitializedValueConstructN(k, GetAddress(k.v), k.v.size_,
                                            new_size - k.v.size_), new_size)
  ELSE SetSize(DestroyN(k, GetAddress(k.v), new_size, k.v.size_ - new_size), new_size)

\* Vector::Resize
Resize(k, new_size) ==
  LET Fill(k1) ==
        IF k1.exc THEN k1
        ELSE UninitializedValueConstructN(k1, GetAddress(k1.v), k1.v.size_,
                                          new_size - k1.v.size_)
  IN IF k.v.size_ < new_size
     THEN SetSize(Fill(IF Capacity(k.v) < new_size THEN Reserve(k, new_size) ELSE k),
                  new_size)
     ELSE SetSize(DestroyN(k, GetAddress(k.v), new_size, k.v.size_ - new_size), new_size)

\* Variant of PopBack that releases the buffer when the last element goes.
PopBackRelease(k) ==
  LET Release(k1) ==
        IF k1.v.size_ # 0 THEN k1
        ELSE [Deallocate(k1, GetAddress(k1.v)) EXCEPT !.v.data_ = NullRaw]
  IN Release([DestroyN(k, GetAddress(k.v), k.v.size_ - 1, 1) EXCEPT !.v.size_ = @ - 1])

\* Vector::PopBack (precondition Size() != 0)
PopBack(k) ==
  [DestroyN(k, GetAddress(k.v), k.v.size_ - 1, 1) EXCEPT !.v.size_ = @ - 1]

\* Variant of EmplaceBackRealloc that relocates one element too few.
EmplaceBackReallocShort(k, x, throwing) ==
  LET size == k.v.size_
      old == GetAddress(k.v)
      Commit(k3) ==
        IF k3.exc THEN Deallocate(DestroyAt(k3, k3.p, size), k3.p)
        ELSE LET sw == RawSwap(k3.v.data_, [buffer_ |-> k3.p, capacity_ |-> size * 2])
             IN Deallocate([DestroyN(k3, old, 0, size) EXCEPT !.v.data_ = sw.x], sw.y.buffer_)
      Relocate(k2) ==
        IF k2.exc THEN Deallocate(k2, k2.p)
        ELSE Commit(IF RelocateByMove
                    THEN UninitializedMoveN(k2, old, 0, size - 1, k2.p, 0)
                    ELSE UninitializedCopyN(k2, old, 0, size - 1, k2.p, 0))
      Place(k1) ==
        IF k1.exc THEN k1
        ELSE Relocate(Construct(RawPlus(k1, [buffer_ |-> k1.p, capacity_ |-> size * 2], size),
                                k1.p, size, x, throwing))
  IN Place(Allocate(k, size * 2))

\* The reallocating branch of EmplaceBack, up to the end of its try block.
EmplaceBackRealloc(k, x, throwing) ==
  LET size == k.v.size_
      old == GetAddress(k.v)
      \* destroy_n(data_.GetAddress(), size_); data_.Swap(new_data); or the
      \* catch block; then ~new_data
      Commit(k3) ==
        IF k3.exc THEN Deallocate(DestroyAt(k3, k3.p, size), k3.p)
        ELSE LET sw == RawSwap(k3.v.data_, [buffer_ |-> k3.p, capacity_ |-> size * 2])
             IN Deallocate([DestroyN(k3, old, 0, size) EXCEPT !.v.data_ = sw.x], sw.y.buffer_)
      \* the relocation in the try block
      Relocate(k2) ==
        IF k2.exc THEN Deallocate(k2, k2.p)
        ELSE Commit(IF RelocateByMove
                    THEN UninitializedMoveN(k2, old, 0, size, k2.p, 0)
                    ELSE UninitializedCopyN(k2, old, 0, size, k2.p, 0))
      \* new (new_data + size_) T(args...)
      Place(k1) ==
        IF k1.exc THEN k1
        ELSE Relocate(Construct(RawPlus(k1, [buffer_ |-> k1.p, capacity_ |-> size * 2], size),
                                k1.p, size, x, throwing))
  IN Place(Allocate(k, size * 2))

\* Variant of EmplaceBack whose first case replaces the buffer by a new one of
\* capacity 1 instead of reserving.
EmplaceBackFreshFirst(k, x, throwing) ==
  LET First(r) == IF r.exc THEN r ELSE Construct(r, GetAddress(r.v), 0, x, throwing)
      Fresh(k1) ==
        IF k1.exc THEN k1
        ELSE [Deallocate(k1, GetAddress(k1.v))
                EXCEPT !.v.data_ = [buffer_ |-> k1.p, capacity_ |-> 1]]
  IN ReturnCursor(
       SetSize(IF k.v.size_ = 0 THEN First(Fresh(Allocate(k, 1)))
               ELSE IF k.v.size_ = Capacity(k.v) THEN EmplaceBackRealloc(k, x, throwing)
               ELSE Construct(RawPlus(k, k.v.data_, k.v.size_), GetAddress(k.v),
                              k.v.size_, x, throwing),
               k.v.size_ + 1),
       k.v.size_)

\* Vector::EmplaceBack: constructs T(args...) == x at the end; throwing tells
\* whether that constructor can throw.
EmplaceBack(k, x, throwing) ==
  LET First(r) == IF r.exc THEN r ELSE Construct(r, GetAddress(r.v), 0, x, throwing)
  IN ReturnCursor(
       SetSize(IF k.v.size_ = 0 THEN First(Reserve(k, 1))
               ELSE IF k.v.size_ = Capacity(k.v) THEN EmplaceBackRealloc(k, x, throwing)
               ELSE Construct(RawPlus(k, k.v.data_, k.v.size_), GetAddress(k.v),
                              k.v.size_, x, throwing),
               k.v.size_ + 1),
       k.v.size_)

\* Variant of EmplaceRealloc that grows the capacity by one.
EmplaceReallocPlusOne(k, dist, x, throwing) ==
  LET size == k.v.size_
      old == GetAddress(k.v)
      Commit(b) ==
        IF b.exc THEN Deallocate(DestroyN(b, b.p, dist, 1), b.p)
        ELSE LET sw == RawSwap(b.v.data_, [buffer_ |-> b.p, capacity_ |-> size + 1])
             IN Deallocate([DestroyN(b, old, 0, size) EXCEPT !.v.data_ = sw.x], sw.y.buffer_)
      InnerCatch(c2) == IF c2.exc THEN DestroyN(c2, c2.p, 0, dist + 1) ELSE c2
      Suffix(p1) ==
        IF p1.exc THEN p1
        ELSE IF RelocateByMove
        THEN UninitializedMoveN(p1, old, dist, size - dist, p1.p, dist + 1)
        ELSE InnerCatch(UninitializedCopyN(p1, old, dist, size - dist, p1.p, dist + 1))
      Relocate(k2) ==
        IF k2.exc THEN Deallocate(k2, k2.p)
        ELSE Commit(Suffix(IF RelocateByMove
                           THEN UninitializedMoveN(k2, old, 0, dist, k2.p, 0)
                           ELSE UninitializedCopyN(k2, old, 0, dist, k2.p, 0)))
      Place(k1) ==
        IF k1.exc THEN k1
        ELSE Relocate(Construct(RawPlus(k1, [buffer_ |-> k1.p, capacity_ |-> size + 1], dist),
                                k1.p, dist, x, throwing))
  IN Place(Allocate(k, size + 1))

\* The reallocating branch of Emplace (size_ >= Capacity()).
EmplaceRealloc(k, dist, x, throwing) ==
  LET size == k.v.size_
      old == GetAddress(k.v)
      \* destroy_n(data_.GetAddress(), size_); data_.Swap(new_data); or the
      \* outer catch block; then ~new_data
      Commit(b) ==
        IF b.exc THEN Deallocate(DestroyN(b, b.p, dist, 1), b.p)
        ELSE LET sw == RawSwap(b.v.data_, [buffer_ |-> b.p, capacity_ |-> size * 2])
             IN Deallocate([DestroyN(b, old, 0, size) EXCEPT !.v.data_ = sw.x], sw.y.buffer_)
      \* the inner catch block
      InnerCatch(c2) == IF c2.exc THEN DestroyN(c2, c2.p, 0, dist + 1) ELSE c2
      \* the relocation of [dist, size_) to new_data + dist + 1
      Suffix(p1) ==
        IF p1.exc THEN p1
        ELSE IF RelocateByMove
        THEN UninitializedMoveN(p1, old, dist, size - dist, p1.p, dist + 1)
        ELSE InnerCatch(UninitializedCopyN(p1, old, dist, size - dist, p1.p, dist + 1))
      \* the outer try block: the relocation of [0, dist) first
      Relocate(k2) ==
        IF k2.exc THEN Deallocate(k2, k2.p)
        ELSE Commit(Suffix(IF RelocateByMove
                           THEN UninitializedMoveN(k2, old, 0, dist, k2.p, 0)
                           ELSE UninitializedCopyN(k2, old, 0, dist, k2.p, 0)))
      \* new (new_data + dist) T(args...)
      Place(k1) ==
        IF k1.exc THEN k1
        ELSE Relocate(Construct(RawPlus(k1, [buffer_ |-> k1.p, capacity_ |-> size * 2], dist),
                                k1.p, dist, x, throwing))
  IN Place(Allocate(k, size * 2))

\* The in-place branch of Emplace (spare capacity, pos != end()).
EmplaceInPlace(k, dist, x, throwing) ==
  LET size == k.v.size_
      buf == GetAddress(k.v)
      \* the catch block
      Catch(b) == IF b.exc THEN DestroyN(RawPlus(b, b.v.data_, size), buf, size, 1) ELSE b
      \* destroy_n(data_.GetAddress() + dist, 1); new (data_ + dist) T(args...)
      Put(s2) ==
        IF s2.exc THEN s2
        ELSE Construct(RawPlus(DestroyN(s2, buf, dist, 1), s2.v.data_, dist),
                       buf, dist, x, throwing)
      \* move_backward(begin() + dist, end(), end() + 1)
      Shift(s1) ==
        IF s1.exc THEN s1
        ELSE Put(StdMoveBackward(s1, buf, dist, size - dist, buf, size + 1))
  IN \* new (data_ + size_) T(std::move(*(end() - 1)))
     Catch(Shift(MoveConstruct(RawPlus(k, k.v.data_, size), buf, size - 1, buf, size)))

\* Vector::Emplace with dist == pos - begin().
Emplace(k, dist, x, throwing) ==
  IF dist = k.v.size_ THEN EmplaceBack(k, x, throwing)
  ELSE ReturnCursor(
         SetSize(IF k.v.size_ >= Capacity(k.v)
                 THEN EmplaceRealloc(k, dist, x, throwing)
                 ELSE EmplaceInPlace(k, dist, x, throwing),
                 k.v.size_ + 1),
         dist)

\* Variant of Erase that does not destroy the last element.
EraseNoDestroy(k, dist) ==
  LET size == k.v.size_
      buf == GetAddress(k.v)
  IN ReturnCursor(SetSize(StdMove(k, buf, dist + 1, size - (dist + 1), buf, dist),
                          size - 1),
                  dist)

\* Vector::Erase with dist == pos - begin().
Erase(k, dist) ==
  LET size == k.v.size_
      buf == GetAddress(k.v)
      DestroyLast(k1) == IF k1.exc THEN k1 ELSE DestroyN(k1, buf, size - 1, 1)
  IN ReturnCursor(SetSize(DestroyLast(StdMove(k, buf, dist + 1, size - (dist + 1), buf, dist)),
                          size - 1),
                  dist)

\* Vector::Vector(size_t size); the new object is returned in k.nv.
VectorSized(k, size) ==
  LET Made(k2) ==
        IF k2.exc THEN Deallocate(k2, k2.p)
        ELSE [k2 EXCEPT !.nv = [data_ |-> [buffer_ |-> k2.p, capacity_ |-> size],
                                size_ |-> size]]
      Fill(k1) == IF k1.exc THEN k1 ELSE Made(UninitializedValueConstructN(k1, k1.p, 0, size))
  IN Fill(Allocate(k, size))

\* Vector::Vector(const Vector& other); the new object is returned in k.nv.
\* other is const: in the first branch std::move of a const T yields const T&&,
\* which selects T's copy constructor, so both branches copy.
VectorCopy(k, other) ==
  LET Made(k2) ==
        IF k2.exc THEN Deallocate(k2, k2.p)
        ELSE [k2 EXCEPT !.nv = [data_ |-> [buffer_ |-> k2.p, capacity_ |-> other.size_],
                                size_ |-> other.size_]]
      Fill(k1) ==
        IF k1.exc THEN k1
        ELSE Made(IF RelocateByMove
                  THEN UninitializedMoveNConst(k1, GetAddress(other), 0, other.size_, k1.p, 0)
                  ELSE UninitializedCopyN(k1, GetAddress(other), 0, other.size_, k1.p, 0))
  IN Fill(Allocate(k, other.size_))

\* Vector::Vector(Vector&& other) with other == k.o; the new object is returned
\* in k.nv, and k.o is the source afterwards.
VectorMove(k) ==
  LET ma == RawMoveAssign(k, NullRaw, k.o.data_)
  IN [ma.k EXCEPT !.nv = [data_ |-> ma.self, size_ |-> k.o.size_],
                  !.o = [data_ |-> ma.rhs, size_ |-> 0]]

\* Vector::Swap on two vectors
VectorSwap(x, y) ==
  LET sw == RawSwap(x.data_, y.data_)
  IN [x |-> [data_ |-> sw.x, size_ |-> y.size_],
      y |-> [data_ |-> sw.y, size_ |-> x.size_]]

\* Vector::Swap(other); k.v is *this, k.o is other.
Swap(k) ==
  LET sw == VectorSwap(k.v, k.o)
  IN [k EXCEPT !.v = sw.x, !.o = sw.y]

\* Vector::operator=(Vector&& rhs), this != &rhs; k.v is *this, k.o is rhs.
MoveAssign(k) ==
  LET sw == RawSwap(k.v.data_, k.o.data_)
  IN [k EXCEPT !.v = [data_ |-> sw.x, size_ |-> k.o.size_],
               !.o = [data_ |-> sw.y, size_ |-> k.v.size_]]

\* Variant of CopyAssign that reallocates when rhs.size_ > size_.
CopyAssignBySize(k) ==
  LET rhs == k.o
      size == k.v.size_
      SwapIn(k1) ==
        IF k1.exc THEN k1
        ELSE LET sw == VectorSwap(k1.v, k1.nv)
             IN VectorDtor([k1 EXCEPT !.v = sw.x, !.nv = NoVector], sw.y)
      Rest(g1) ==
        IF g1.exc THEN g1
        ELSE UninitializedCopyN(g1, GetAddress(rhs), size, rhs.size_ - size,
                                GetAddress(k.v), size)
      Trim(h1) ==
        IF h1.exc THEN h1
        ELSE DestroyN(h1, GetAddress(k.v), rhs.size_, size - rhs.size_)
  IN SetSize(IF rhs.size_ > size
             THEN SwapIn(VectorCopy(k, rhs))
             ELSE IF rhs.size_ > size
             THEN Rest(StdCopy(k, GetAddress(rhs), 0, size, GetAddress(k.v), 0))
             ELSE Trim(StdCopy(k, GetAddress(rhs), 0, rhs.size_, GetAddress(k.v), 0)),
             rhs.size_)

\* Variant of CopyAssign that always applies copy-and-swap.
CopyAssignAlwaysSwap(k) ==
  LET SwapIn(k1) ==
        IF k1.exc THEN k1
        ELSE LET sw == VectorSwap(k1.v, k1.nv)
             IN VectorDtor([k1 EXCEPT !.v = sw.x, !.nv = NoVector], sw.y)
  IN SetSize(SwapIn(VectorCopy(k, k.o)), k.o.size_)

\* Variant of CopyAssign that overwrites in place with std::move for std::copy.
CopyAssignMoving(k) ==
  LET rhs == k.o
      size == k.v.size_
      SwapIn(k1) ==
        IF k1.exc THEN k1
        ELSE LET sw == VectorSwap(k1.v, k1.nv)
             IN VectorDtor([k1 EXCEPT !.v = sw.x, !.nv = NoVector], sw.y)
      Rest(g1) ==
        IF g1.exc THEN g1
        ELSE UninitializedCopyN(g1, GetAddress(rhs), size, rhs.size_ - size,
                                GetAddress(k.v), size)
      Trim(h1) ==
        IF h1.exc THEN h1
        ELSE DestroyN(h1, GetAddress(k.v), rhs.size_, size - rhs.size_)
  IN SetSize(IF rhs.size_ > Capacity(k.v)
             THEN SwapIn(VectorCopy(k, rhs))
             ELSE IF rhs.size_ > size
             THEN Rest(StdMove(k, GetAddress(rhs), 0, size, GetAddress(k.v), 0))
             ELSE Trim(StdMove(k, GetAddress(rhs), 0, rhs.size_, GetAddress(k.v), 0)),
             rhs.size_)

\* Vector::operator=(const Vector& rhs), this != &rhs; k.v is *this, k.o is rhs.
CopyAssign(k) ==
  LET rhs == k.o
      size == k.v.size_
      \* Swap(rhs_copy); ~rhs_copy
      SwapIn(k1) ==
        IF k1.exc THEN k1
        ELSE LET sw == VectorSwap(k1.v, k1.nv)
             IN VectorDtor([k1 EXCEPT !.v = sw.x, !.nv = NoVector], sw.y)
      \* uninitialized_copy of rhs's elements [size_, rhs.size_)
      Rest(g1) ==
        IF g1.exc THEN g1
        ELSE UninitializedCopyN(g1, GetAddress(rhs), size, rhs.size_ - size,
                                GetAddress(k.v), size)
      \* destroy of the elements [rhs.size_, size_)
      Trim(h1) ==
        IF h1.exc THEN h1
        ELSE DestroyN(h1, GetAddress(k.v), rhs.size_, size - rhs.size_)
  IN SetSize(IF rhs.size_ > Capacity(k.v)
             THEN SwapIn(VectorCopy(k, rhs))
             ELSE IF rhs.size_ > size
             THEN Rest(StdCopy(k, GetAddress(rhs), 0, size, GetAddress(k.v), 0))
             ELSE Trim(StdCopy(k, GetAddress(rhs), 0, rhs.size_, GetAddress(k.v), 0)),
             rhs.size_)

\* ------------------------------------------------------- calls and state
\* The observable state of a vector: Size(), Capacity(), begin() and the
\* values operator[] gives for 0 .. Size() - 1.
Snap(h, vec) ==
  [size |-> vec.size_, cap |-> Capacity(vec), buf |-> GetAddress(vec),
   elems |-> [i \in 1..vec.size_ |->
                IF InBounds(h, GetAddress(vec), i - 1)
                THEN h[GetAddress(vec)].slots[i] ELSE Raw]]

NoSnap == [size |-> 0, cap |-> 0, buf |-> Null, elems |-> <<>>]

\* Sequences over S of length at most n.
SeqsUpTo(S, n) == UNION {[1..m -> S] : m \in 0..n}

\* The vectors used as the other operand of a call: any size <= capacity.
Others == {o \in [cap : 0..MaxOther, elems : SeqsUpTo(Values, MaxOther)] :
             Len(o.elems) <= o.cap}

\* The heap with the operand o placed in a buffer of its own, and the operand.
OtherAddr(o) ==
  IF o.cap = 0 THEN Null
  ELSE CHOOSE x \in Addrs : ~heap[x].live /\ \A y \in Addrs : ~heap[y].live => x <= y
OtherVec(o) == [data_ |-> [buffer_ |-> OtherAddr(o), capacity_ |-> o.cap],
                size_ |-> Len(o.elems)]
OtherHeap(o) ==
  IF o.cap = 0 THEN heap
  ELSE [heap EXCEPT ![OtherAddr(o)] =
          [live |-> TRUE,
           slots |-> [i \in 1..o.cap |-> IF i <= Len(o.elems) THEN o.elems[i] ELSE Raw]]]
NoOther == [cap |-> 0, elems |-> <<>>]

\* The ways a call can be made to fail: f = OOM makes its allocation fail,
\* f = j > 0 makes its j-th throwing-capable element operation throw, f = 0
\* lets it succeed.  Nothing throws for a trivially copyable T.
OOM == 0 - 1
Failures == IF T.trivial THEN {OOM, 0} ELSE {OOM} \cup (0..MaxThrow)

\* The start of a call on v with operand o and failure f.
Call(o, f) ==
  [heap |-> OtherHeap(o), v |-> v, o |-> OtherVec(o), nv |-> NoVector,
   fuel |-> IF f > 0 THEN f ELSE 0, oom |-> (f = OOM), exc |-> FALSE, errs |-> {}, dlog |-> <<>>,
   nctor |-> 0, nassign |-> 0, nmove |-> 0, nalloc |-> 0, nfree |-> 0,
   p |-> Null, ret |-> NoCursor]

\* The start of a call whose operand is v itself: Vector tmp(std::move(v)).
CallOnSelf == [Call(NoOther, 0) EXCEPT !.o = v, !.v = NoVector]

\* The end of a constructor call: the object constructed in k.nv is the vector.
Adopt(k) == IF k.exc THEN k ELSE [k EXCEPT !.v = k.nv, !.nv = NoVector]

\* The end of Vector tmp(std::move(v)): v is the source, tmp the other vector.
AdoptSource(k) == [k EXCEPT !.v = k.o, !.o = k.nv, !.nv = NoVector]

Threw(k, f) == IF ~k.exc THEN "none" ELSE IF f = OOM THEN "oom" ELSE "ctor"

\* Addresses have no meaning of their own (the allocator may return any free
\* one), so between calls the vector's buffer is kept at address Home: a call
\* runs on a heap where the buffer of the vector is at Home, the operand's
\* buffer and every buffer the call allocates are at the lowest free
\* addresses, and at the end of the call the buffer the vector then owns is
\* renamed to Home.
Home == 1
Rehome(vec) == IF GetAddress(vec) = Null THEN vec ELSE [vec EXCEPT !.data_.buffer_ = Home]
RehomeHeap(h, vec) ==
  [a \in Addrs |-> IF a = Home /\ GetAddress(vec) # Null THEN h[GetAddress(vec)]
                   ELSE IF a = Home \/ a = GetAddress(vec) THEN FreeCell
                   ELSE h[a]]

\* The representation of a vector is sound when exactly the slots [0, size_)
\* of its buffer hold constructed elements.
Sound(h, vec) ==
  /\ vec.size_ <= Capacity(vec)
  /\ \A i \in 0..(Capacity(vec) - 1) : Live(h, GetAddress(vec), i) <=> i < vec.size_

NoCall ==
  [op |-> "none", n |-> 0, x |-> 0, threw |-> "none", f |-> 0,
   pre |-> NoSnap, opre |-> NoSnap, opost |-> NoSnap, ret |-> NoCursor,
   dlog |-> <<>>, nctor |-> 0, nassign |-> 0, nmove |-> 0,
   nalloc |-> 0, nfree |-> 0, buf |-> Null, odtor |-> 0, errs |-> {},
   raw |-> NullRaw, live |-> {}]

\* The lifetime violations of a call: those of its steps and of the operand's
\* destructor (kd is the state after it), a buffer still allocated that the
\* vector does not own, a vector left unsound.
Violations(kd) ==
  kd.errs
    \cup (IF \E a \in Addrs : kd.heap[a].live /\ a # GetAddress(kd.v)
          THEN {"buffer_leak"} ELSE {})
    \cup (IF Sound(kd.heap, kd.v) THEN {} ELSE {"unsound"})

\* The state after a call that ended in k, whose operand's destructor left kd.
\* last is the observation of a run: a run either goes on without recording
\* the call, or records it (arguments, failure f, state before, results, the
\* destructor calls made, the address buf of the vector's buffer at the end of
\* the call, the number odtor of elements the operand's destructor destroys, the
\* RawMemory raw of the vector and the set live of the buffers allocated at
\* the end of the call) and ends there.  A call with a lifetime violation is always recorded.
Finish(op, n, x, o, f, k, kd, newalive) ==
  /\ v' = Rehome(k.v)
  /\ alive' = IF k.exc THEN alive ELSE newalive
  /\ heap' = RehomeHeap(kd.heap, k.v)
  /\ T' = T
  /\ \E record \in BOOLEAN :
       last' = IF record \/ Violations(kd) # {}
               THEN [op |-> op, n |-> n, x |-> x, threw |-> Threw(k, f), f |-> f,
                     pre |-> Snap(heap, v),
                     opre |-> Snap(OtherHeap(o), OtherVec(o)),
                     opost |-> Snap(k.heap, k.o),
                     ret |-> IF k.exc THEN NoCursor ELSE k.ret,
                     dlog |-> k.dlog, nctor |-> k.nctor, nassign |-> k.nassign,
                     nmove |-> k.nmove, nalloc |-> k.nalloc, nfree |-> k.nfree,
                     buf |-> GetAddress(k.v),
                     odtor |-> Len(kd.dlog) - Len(k.dlog),
                     errs |-> Violations(kd),
                     raw |-> k.v.data_,
                     live |-> {a \in Addrs : k.heap[a].live}]
               ELSE NoCall

\* The end of a call in state k: the operand k.o goes out of scope (its
\* destructor runs) and the state of the vector is updated to k.v; newalive
\* tells whether the vector exists after a call that did not throw.
Return(op, n, x, o, f, k, newalive) ==
  Finish(op, n, x, o, f, k, VectorDtor(k, k.o), newalive)

Init ==
  /\ T \in Types
  /\ alive = FALSE
  /\ v = NoVector
  /\ heap = [a \in Addrs |-> FreeCell]
  /\ last = NoCall

\* No call has been recorded yet: the run goes on.
Defined == last.op = "none"

\* Vector() = default
DoDefaultCtor ==
  /\ Defined /\ ~alive
  /\ Return("Vector()", 0, 0, NoOther, 0, Call(NoOther, 0), TRUE)

\* explicit Vector(size_t size)
DoSizedCtor ==
  /\ Defined /\ ~alive
  /\ \E n \in 0..MaxCap, f \in Failures :
       Return("Vector(n)", n, 0, NoOther, f, Adopt(VectorSized(Call(NoOther, f), n)), TRUE)

\* Vector(const Vector& other)
DoCopyCtor ==
  /\ Defined /\ ~alive /\ T.copyable
  /\ \E o \in Others, f \in Failures :
       Return("Vector(const&)", 0, 0, o, f, Adopt(VectorCopy(Call(o, f), OtherVec(o))), TRUE)

\* Vector(Vector&& other): v is the new vector
DoMoveCtor ==
  /\ Defined /\ ~alive
  /\ \E o \in Others :
       Return("Vector(&&)", 0, 0, o, 0, Adopt(VectorMove(Call(o, 0))), TRUE)

\* Vector tmp(std::move(v)): v is the source; tmp then goes out of scope
DoMovedFrom ==
  /\ Defined /\ alive
  /\ Return("MovedFrom", 0, 0, NoOther, 0, AdoptSource(VectorMove(CallOnSelf)), TRUE)

\* ~Vector()
DoDtor ==
  /\ Defined /\ alive
  /\ Return("~Vector", 0, 0, NoOther, 0,
            [VectorDtor(Call(NoOther, 0), v) EXCEPT !.v = NoVector], FALSE)

\* v = o
DoCopyAssign ==
  /\ Defined /\ alive /\ T.copyable
  /\ \E o \in Others, f \in Failures :
       Return("CopyAssign", 0, 0, o, f, CopyAssign(Call(o, f)), TRUE)

\* v = v : this == &rhs, nothing is done
DoCopyAssignSelf ==
  /\ Defined /\ alive /\ T.copyable
  /\ Return("CopyAssignSelf", 0, 0, NoOther, 0, Call(NoOther, 0), TRUE)

\* v = std::move(o)
DoMoveAssign ==
  /\ Defined /\ alive
  /\ \E o \in Others :
       Return("MoveAssign", 0, 0, o, 0, MoveAssign(Call(o, 0)), TRUE)

\* v = std::move(v) : this == &rhs, nothing is done
DoMoveAssignSelf ==
  /\ Defined /\ alive
  /\ Return("MoveAssignSelf", 0, 0, NoOther, 0, Call(NoOther, 0), TRUE)

\* v.Swap(o)
DoSwap ==
  /\ Defined /\ alive
  /\ \E o \in Others :
       Return("Swap", 0, 0, o, 0, Swap(Call(o, 0)), TRUE)

\* v.Reserve(c)
DoReserve ==
  /\ Defined /\ alive
  /\ \E c \in 0..MaxCap, f \in Failures :
       Return("Reserve", c, 0, NoOther, f, Reserve(Call(NoOther, f), c), TRUE)

\* v.Resize(n)
DoResize ==
  /\ Defined /\ alive
  /\ \E n \in 0..MaxCap, f \in Failures :
       Return("Resize", n, 0, NoOther, f, Resize(Call(NoOther, f), n), TRUE)

\* A growing call keeps the capacity within the bound of the model.
CanGrow == v.size_ < Capacity(v) \/ v.size_ = 0 \/ 2 * v.size_ <= MaxCap

\* v.PushBack(const T&) and v.PushBack(T&&): EmplaceBack with T's copy or
\* move constructor building the new element.
DoPushBack ==
  /\ Defined /\ alive /\ CanGrow
  /\ \E x \in Values, f \in Failures :
       \E throwing \in (IF T.copyable THEN {CopyThrows} ELSE {}) \cup {MoveThrows} :
          Return("PushBack", 0, x, NoOther, f, EmplaceBack(Call(NoOther, f), x, throwing), TRUE)

\* v.PopBack()
DoPopBack ==
  /\ Defined /\ alive /\ v.size_ # 0
  /\ Return("PopBack", 0, 0, NoOther, 0, PopBack(Call(NoOther, 0)), TRUE)

\* v.EmplaceBack(args...)
DoEmplaceBack ==
  /\ Defined /\ alive /\ CanGrow
  /\ \E x \in Values, f \in Failures :
       Return("EmplaceBack", 0, x, NoOther, f, EmplaceBack(Call(NoOther, f), x, ArgsThrows), TRUE)

\* v.Emplace(begin() + dist, args...)
DoEmplace ==
  /\ Defined /\ alive /\ CanGrow
  /\ \E dist \in 0..v.size_, x \in Values, f \in Failures :
       Return("Emplace", dist, x, NoOther, f, Emplace(Call(NoOther, f), dist, x, ArgsThrows), TRUE)

\* v.Insert(begin() + dist, const T&) and v.Insert(begin() + dist, T&&):
\* Emplace with T's copy or move constructor building the new element.
DoInsert ==
  /\ Defined /\ alive /\ CanGrow
  /\ \E dist \in 0..v.size_, x \in Values, f \in Failures :
       \E throwing \in (IF T.copyable THEN {CopyThrows} ELSE {}) \cup {MoveThrows} :
          Return("Insert", dist, x, NoOther, f, Emplace(Call(NoOther, f), dist, x, throwing), TRUE)

\* v.Erase(begin() + dist)
DoErase ==
  /\ Defined /\ alive
  /\ \E dist \in 0..(v.size_ - 1), f \in Failures \ {OOM} :
       Return("Erase", dist, 0, NoOther, f, Erase(Call(NoOther, f), dist), TRUE)

\* RawMemory used on its own, in a scope that holds nothing else:
\*   { RawMemory<T> a(n); RawMemory<T> b(m); <op>; }
\* where <op> is nothing (b is left out), RawMemory<T> c(std::move(b)) (a is
\* left out), a = std::move(b), a = std::move(a) (b is left out) or a.Swap(b).
\* The run is recorded: pre is the destination before the operation, opre /
\* opost the source before / after it, raw the destination after it, live the
\* buffers allocated after it, errs what the destructors at the end of the
\* scope add.
RawOps == {"RawMemory(n)", "RawMemory(&&)", "RawMemory=", "RawMemory=Self", "RawMemory::Swap"}

RawSnap(raw) == [size |-> 0, cap |-> raw.capacity_, buf |-> raw.buffer_, elems |-> <<>>]

DoRawMemory ==
  /\ Defined /\ ~alive
  /\ \E op \in RawOps, n, m \in 0..MaxOther, f \in {OOM, 0} :
       /\ (op = "RawMemory(&&)") => n = 0
       /\ (op \in {"RawMemory(n)", "RawMemory=Self"}) => m = 0
       /\ (op # "RawMemory(n)") => f = 0
       /\ LET Leave(r, a, b) ==
                LET kd == Deallocate(Deallocate(r.k, IF op = "RawMemory=Self" THEN Null
                                                     ELSE r.rhs.buffer_),
                                     r.self.buffer_)
                IN last' = [NoCall EXCEPT
                              !.op = op, !.n = n, !.f = f, !.threw = Threw(r.k, f),
                              !.pre = RawSnap(a),
                              !.opre = RawSnap(IF op = "RawMemory=Self" THEN a ELSE b),
                              !.opost = RawSnap(r.rhs),
                              !.raw = r.self, !.buf = r.self.buffer_,
                              !.live = {x \in Addrs : r.k.heap[x].live},
                              !.nalloc = r.k.nalloc, !.nfree = r.k.nfree,
                              !.errs = kd.errs \cup
                                       (IF \E x \in Addrs : kd.heap[x].live
                                        THEN {"buffer_leak"} ELSE {})]
              Operate(k, a, b) ==
                Leave(IF k.exc THEN [k |-> k, self |-> NullRaw, rhs |-> NullRaw]
                      ELSE IF op = "RawMemory(n)" THEN [k |-> k, self |-> a, rhs |-> b]
                      ELSE IF op = "RawMemory(&&)" THEN
                        [k |-> RawMoveCtor(k, b).k, self |-> RawMoveCtor(k, b).self,
                         rhs |-> RawMoveCtor(k, b).other]
                      ELSE IF op = "RawMemory=" THEN RawMoveAssign(k, a, b)
                      ELSE IF op = "RawMemory=Self" THEN RawMoveAssignSelf(k, a)
                      ELSE [k |-> k, self |-> RawSwap(a, b).x, rhs |-> RawSwap(a, b).y],
                      a, b)
              Second(k, a) == Operate(Allocate(k, m), a, RawCtor(Allocate(k, m), m))
              First(k) == Second(k, IF k.exc THEN NullRaw ELSE RawCtor(k, n))
          IN First(Allocate(Call(NoOther, f), n))
  /\ UNCHANGED <<T, alive, v, heap>>

Next ==
  \/ DoRawMemory
  \/ DoDefaultCtor \/ DoSizedCtor \/ DoCopyCtor \/ DoMoveCtor \/ DoMovedFrom \/ DoDtor
  \/ DoCopyAssign \/ DoCopyAssignSelf \/ DoMoveAssign \/ DoMoveAssignSelf \/ DoSwap
  \/ DoReserve \/ DoResize \/ DoPushBack \/ DoPopBack
  \/ DoEmplaceBack \/ DoEmplace \/ DoInsert \/ DoErase

Spec == Init /\ [][Next]_vars

\* ------------------------------------------------------------ properties
Cur == Snap(heap, v)
Max(a, b) == IF a >= b THEN a ELSE b

\* C1: in every reachable state Size() <= Capacity(), and Capacity() == 0
\* implies Size() == 0; the same holds of the other vector of a call.
C1_SizeWithinCapacity ==
  /\ Size(v) <= Capacity(v)
  /\ (Capacity(v) = 0 => Size(v) = 0)
  /\ last.opost.size <= last.opost.cap
  /\ (last.opost.cap = 0 => last.opost.size = 0)

C1_Witness ==
  /\ last.op \in {"Emplace", "Insert"} /\ last.threw = "none"
  /\ Size(v) = Capacity(v) /\ Size(v) = 4

\* C2: no call destroys an element twice, runs a destructor on a slot that
\* holds no constructed element, or leaves a constructed element undestroyed
\* in a buffer it releases; the vector's destructor included.
C2_NoLifetimeViolation == last.errs = {}

\* C3: after a successful PushBack(x) / EmplaceBack(x) on a vector of size n,
\* Size() == n + 1, element n is x and the elements at [0, n) are unchanged.
C3_PushBackAppends ==
  LET cur == Cur IN
  (last.op \in {"PushBack", "EmplaceBack"} /\ last.threw = "none") =>
     /\ cur.size = last.pre.size + 1
     /\ cur.elems[cur.size] = last.x
     /\ \A i \in 1..last.pre.size : cur.elems[i] = last.pre.elems[i]

C3_Witness ==
  /\ last.op = "PushBack" /\ last.threw = "none" /\ T.name = "Str"
  /\ last.pre.size = 2 /\ last.pre.cap = 2 /\ last.pre.elems = <<1, 0>>

\* C4: PushBack, EmplaceBack, Emplace and Insert reallocate exactly when
\* size == capacity, the capacity is then max(1, 2 * capacity), and a call on
\* a vector with size < capacity leaves the capacity and the buffer alone.
C4_GrowthPolicy ==
  LET cur == Cur IN
  (last.op \in {"PushBack", "EmplaceBack", "Emplace", "Insert"}) =>
     /\ (last.pre.size < last.pre.cap) =>
           /\ cur.cap = last.pre.cap
           /\ last.buf = last.pre.buf
           /\ last.nalloc = 0
     /\ (last.pre.size = last.pre.cap /\ last.threw = "none") =>
           /\ cur.cap = Max(1, 2 * last.pre.cap)
           /\ last.nalloc = 1

C4_Witness ==
  LET cur == Cur IN
  /\ last.op \in {"PushBack", "EmplaceBack", "Emplace", "Insert"}
  /\ last.threw = "none" /\ last.pre.size = 2 /\ last.pre.cap = 2 /\ cur.cap = 4

\* C5: after a successful Reserve(c), nothing has changed if c <= the old
\* capacity and the capacity is exactly c otherwise; Capacity() >= c, and the
\* size and the elements are unchanged.
C5_ReservePost ==
  LET cur == Cur IN
  (last.op = "Reserve" /\ last.threw = "none") =>
     /\ (last.n <= last.pre.cap) =>
           /\ cur = last.pre /\ last.buf = last.pre.buf
           /\ last.nalloc = 0 /\ last.nctor = 0 /\ last.dlog = <<>>
     /\ (last.n > last.pre.cap) => cur.cap = last.n
     /\ cur.cap >= last.n
     /\ cur.size = last.pre.size
     /\ cur.elems = last.pre.elems

C5_Witness ==
  /\ last.op = "Reserve" /\ last.threw = "none" /\ T.name = "Str"
  /\ last.n > last.pre.cap /\ last.pre.size = 2

\* C6: after a successful Emplace / Insert at index k of a vector of size n,
\* Size() == n + 1, element k is the new element, the old elements at [k, n)
\* are at [k + 1, n + 1), those at [0, k) are unchanged, and the returned
\* cursor addresses index k of the current buffer.
C6_EmplacePost ==
  LET cur == Cur IN
  (last.op \in {"Emplace", "Insert"} /\ last.threw = "none") =>
     /\ cur.size = last.pre.size + 1
     /\ cur.elems[last.n + 1] = last.x
     /\ \A i \in 1..last.n : cur.elems[i] = last.pre.elems[i]
     /\ \A i \in (last.n + 1)..last.pre.size : cur.elems[i + 1] = last.pre.elems[i]
     /\ last.ret = Cursor(last.buf, last.n)

\* C7: after Erase at index k of a vector of size n, Size() == n - 1, the
\* elements at [0, k) are unchanged, those at [k, n - 1) are the old ones at
\* [k + 1, n), the capacity and the buffer are unchanged, exactly one element
\* was destroyed, and the returned cursor addresses index k (end() when k was
\* the last index).
C7_ErasePost ==
  LET cur == Cur IN
  (last.op = "Erase" /\ last.threw = "none") =>
     /\ cur.size = last.pre.size - 1
     /\ \A i \in 1..last.n : cur.elems[i] = last.pre.elems[i]
     /\ \A i \in (last.n + 1)..cur.size : cur.elems[i] = last.pre.elems[i + 1]
     /\ cur.cap = last.pre.cap /\ last.buf = last.pre.buf
     /\ Len(last.dlog) = 1
     /\ last.ret = Cursor(last.buf, last.n)
     /\ (last.n = last.pre.size - 1 => last.ret.idx = cur.size)

C7_Witness ==
  /\ last.op = "Erase" /\ last.threw = "none" /\ T.name = "Str"
  /\ last.n = 1 /\ last.pre.elems = <<1, 0, 1, 0>>

\* C8: after a successful copy assignment a = b, a has the size and elements
\* of b and b is unchanged; if b.size <= a's old capacity, the capacity and
\* the buffer of a are unchanged and exactly max(0, old a.size - b.size)
\* destructors ran, all on a's excess suffix; otherwise the capacity of a is
\* exactly b.size.
C8_CopyAssignPost ==
  LET cur == Cur IN
  (last.op = "CopyAssign" /\ last.threw = "none") =>
     /\ cur.size = last.opre.size
     /\ cur.elems = last.opre.elems
     /\ last.opost = last.opre
     /\ (last.opre.size <= last.pre.cap) =>
           /\ cur.cap = last.pre.cap /\ last.buf = last.pre.buf
           /\ Len(last.dlog) = Max(0, last.pre.size - last.opre.size)
           /\ \A i \in 1..Len(last.dlog) :
                 /\ last.dlog[i][1] = last.pre.buf
                 /\ last.dlog[i][2] >= last.opre.size
                 /\ last.dlog[i][2] < last.pre.size
     /\ (last.opre.size > last.pre.cap) => cur.cap = last.opre.size

C8_Witness ==
  /\ last.op = "CopyAssign" /\ last.threw = "none"
  /\ last.pre.size = 4 /\ last.opre.elems = <<0, 1>>

\* C9: a move construction gives the new vector the size, capacity, buffer
\* and elements of the source without constructing, moving, assigning or
\* destroying an element and without allocating or releasing a buffer; the
\* source is left with size 0, capacity 0 and a null buffer, and destroying it
\* destroys no element.
C9_MoveCtorPost ==
  LET cur == Cur IN
  /\ (last.op = "Vector(&&)") =>
        /\ cur.size = last.opre.size /\ cur.cap = last.opre.cap
        /\ cur.elems = last.opre.elems /\ last.buf = last.opre.buf
        /\ last.opost = NoSnap /\ last.odtor = 0
  /\ (last.op = "MovedFrom") =>
        /\ last.opost = last.pre
        /\ v = NoVector /\ cur = NoSnap
  /\ (last.op \in {"Vector(&&)", "MovedFrom"}) =>
        /\ last.nctor = 0 /\ last.nmove = 0 /\ last.nassign = 0 /\ last.dlog = <<>>
        /\ last.nalloc = 0 /\ last.nfree = 0 /\ last.errs = {}

C9_Witness ==
  /\ last.op = "MovedFrom" /\ last.pre.size = 3 /\ last.pre.cap = 4 /\ T.name = "Str"

\* C10: if the f-th copy construction of a reallocating Reserve throws (T is
\* relocated by copy), the failure propagates, the size, capacity, buffer and
\* elements are unchanged, exactly f - 1 destructors ran, all on the new
\* buffer, and the new buffer was released.
C10_ReserveRollback ==
  LET cur == Cur IN
  (/\ last.op = "Reserve" /\ ~RelocateByMove
   /\ last.n > last.pre.cap /\ last.f >= 1 /\ last.f <= last.pre.size) =>
     /\ last.threw = "ctor"
     /\ cur = last.pre /\ last.buf = last.pre.buf
     /\ Len(last.dlog) = last.f - 1
     /\ \A i \in 1..Len(last.dlog) : last.dlog[i][1] # last.pre.buf
     /\ last.nalloc = 1 /\ last.nfree = 1
     /\ last.errs = {}

C10_Witness ==
  /\ last.op = "Reserve" /\ last.threw = "ctor" /\ T.name = "A"
  /\ last.f = 2 /\ last.pre.size = 3 /\ last.n = 4

\* C11: a PushBack / EmplaceBack that fails because the new element's
\* constructor throws, or because a copy throws during relocation, leaves the
\* size, the capacity and the elements as they were, whether the capacity was
\* 0, equal to the size, or larger than the size.
C11_PushBackStrong ==
  LET cur == Cur IN
  (/\ last.op \in {"PushBack", "EmplaceBack"} /\ last.threw = "ctor"
   /\ (last.f = 1 \/ ~(T.nothrow_move \/ ~T.copyable))) =>
     /\ cur.size = last.pre.size
     /\ cur.cap = last.pre.cap
     /\ cur.elems = last.pre.elems

\* C12: a Resize(n) that fails (allocation failure, or a constructor that
\* throws, also after the capacity was grown for n > capacity) leaves the size,
\* the capacity and the elements as they were.
C12_ResizeStrong ==
  LET cur == Cur IN
  (last.op = "Resize" /\ last.threw # "none") =>
     /\ cur.size = last.pre.size
     /\ cur.cap = last.pre.cap
     /\ cur.elems = last.pre.elems

\* C13: in the reallocating branch of Emplace / Insert (size == capacity,
\* pos != end()), if the constructor of the inserted element throws, or a copy
\* throws while the prefix or the suffix is relocated, the failure reaches the
\* caller (threw = "ctor") with the size, the capacity and the elements
\* unchanged.  A call that runs a destructor on a slot holding no element has
\* no defined outcome, so it does not leave the vector unchanged.
C13_EmplaceReallocStrong ==
  LET cur == Cur IN
  (/\ last.op \in {"Emplace", "Insert"}
   /\ last.pre.size = last.pre.cap /\ last.n < last.pre.size
   /\ last.threw = "ctor"
   /\ (last.f = 1 \/ ~(T.nothrow_move \/ ~T.copyable))) =>
     /\ last.errs = {}
     /\ cur.size = last.pre.size
     /\ cur.cap = last.pre.cap
     /\ cur.elems = last.pre.elems

\* C14: if a constructor or a move assignment throws in the in-place branch
\* of Emplace / Insert (spare capacity, pos != end()), the vector is left
\* valid: the slots [0, size) all hold a constructed element, the slots
\* [size, capacity) hold none, and no destructor ran on a slot without an
\* element.
C14_EmplaceInPlaceBasic ==
  (/\ last.op \in {"Emplace", "Insert"}
   /\ last.pre.size < last.pre.cap /\ last.n < last.pre.size
   /\ last.threw = "ctor") =>
     /\ Sound(heap, v)
     /\ last.errs = {}

\* C15: copy assignment is idempotent: in the state a successful a = b leaves,
\* assigning the same b again succeeds and leaves the size, the capacity and
\* the elements of a as they are, and b has its size, capacity and elements
\* after both assignments.
C15_CopyAssignIdempotent ==
  (last.op = "CopyAssign" /\ last.threw = "none") =>
     LET cur == Cur
         b == [cap |-> last.opre.cap, elems |-> last.opre.elems]
         k == CopyAssign(Call(b, 0))
         again == Snap(k.heap, k.v)
         bAgain == Snap(k.heap, k.o)
     IN /\ ~k.exc /\ k.errs = {}
        /\ again.size = cur.size /\ again.cap = cur.cap /\ again.elems = cur.elems
        /\ last.opost = last.opre
        /\ bAgain.size = last.opre.size /\ bAgain.cap = last.opre.cap
        /\ bAgain.elems = last.opre.elems

C15_Witness ==
  /\ last.op = "CopyAssign" /\ last.threw = "none" /\ T.name = "A"
  /\ last.pre.size = 1 /\ last.pre.cap = 1 /\ last.opre.elems = <<1, 0>>

\* C16: Reserve, Resize, PushBack, EmplaceBack, PopBack, Emplace, Insert,
\* Erase and copy assignment never take the capacity from > 0 to 0; Swap and
\* move assignment do so only with a vector of capacity 0, and being moved
\* from always does; a successful growth of a vector of capacity 0 (PushBack,
\* EmplaceBack, Emplace, Insert, Reserve(c) and Resize(n) with c, n > 0, copy
\* assignment from a non-empty vector) leaves a capacity > 0.
C16_CapacityStates ==
  LET cur == Cur IN
  /\ (/\ last.op \in {"Reserve", "Resize", "PushBack", "EmplaceBack", "PopBack",
                       "Emplace", "Insert", "Erase", "CopyAssign", "CopyAssignSelf"}
      /\ last.pre.cap > 0) => cur.cap > 0
  /\ (/\ last.op \in {"Swap", "MoveAssign"}
      /\ last.pre.cap > 0 /\ cur.cap = 0) => last.opre.cap = 0
  /\ (last.op = "MoveAssignSelf" /\ last.pre.cap > 0) => cur.cap > 0
  /\ (last.op = "MovedFrom") => cur.cap = 0
  /\ (/\ last.pre.cap = 0 /\ last.threw = "none"
      /\ \/ last.op \in {"PushBack", "EmplaceBack", "Emplace", "Insert"}
         \/ last.op \in {"Reserve", "Resize"} /\ last.n > 0
         \/ last.op = "CopyAssign" /\ last.opre.size > 0) => cur.cap > 0

C16_Witness ==
  /\ last.op = "PopBack" /\ last.pre.size = 1 /\ last.pre.cap = 2
  /\ Capacity(v) = 2 /\ T.name = "Str"

\* C17: at a relocation site (a growing Reserve, PushBack / EmplaceBack with
\* size == capacity > 0, Emplace / Insert before end() with size == capacity)
\* the old elements are relocated by move when T is nothrow move constructible
\* or not copy constructible (each of them is moved from, unless T is
\* trivially copyable), and by copy otherwise: then no element is moved from,
\* and until the relocation has succeeded the old elements are only read (a
\* failed call leaves them as they were and destroys nothing in the old
\* buffer; a successful one destroys each of them once).
C17_RelocationStrategy ==
  LET cur == Cur
      byMove == T.nothrow_move \/ ~T.copyable
      site == \/ last.op = "Reserve" /\ last.n > last.pre.cap
              \/ /\ last.op \in {"PushBack", "EmplaceBack"}
                 /\ last.pre.size = last.pre.cap /\ last.pre.size > 0
              \/ /\ last.op \in {"Emplace", "Insert"}
                 /\ last.pre.size = last.pre.cap /\ last.n < last.pre.size
      onOld == {i \in 1..Len(last.dlog) : last.dlog[i][1] = last.pre.buf}
  IN site =>
       /\ (byMove /\ ~T.trivial /\ last.threw = "none") => last.nmove = last.pre.size
       /\ ~byMove =>
             /\ last.nmove = 0
             /\ (last.threw # "none") => (cur.elems = last.pre.elems /\ onOld = {})
             /\ (last.threw = "none") => Cardinality(onOld) = last.pre.size

C17_Witness ==
  /\ last.op = "EmplaceBack" /\ last.threw = "none" /\ T.name = "MoveThrow"
  /\ last.pre.size = 2 /\ last.pre.cap = 2 /\ last.nmove = 2

\* C18: testing size == 0 for the first case of EmplaceBack gives what the
\* three cases on the capacity give: a successful PushBack / EmplaceBack(x)
\* appends x, and the capacity is 1 if it was 0, twice the old one if the size
\* was equal to it, and unchanged otherwise; on a vector of size 0 and
\* capacity > 0 the call allocates nothing, keeps the buffer and the capacity,
\* and constructs x in slot 0 (or, when the constructor throws, changes
\* nothing).
C18_EmplaceBackCases ==
  LET cur == Cur IN
  (last.op \in {"PushBack", "EmplaceBack"}) =>
     /\ (last.threw = "none") =>
           /\ cur.size = last.pre.size + 1
           /\ cur.elems = Append(last.pre.elems, last.x)
           /\ cur.cap = IF last.pre.cap = 0 THEN 1
                        ELSE IF last.pre.size = last.pre.cap THEN 2 * last.pre.cap
                        ELSE last.pre.cap
     /\ (last.pre.size = 0 /\ last.pre.cap > 0) =>
           /\ cur.cap = last.pre.cap /\ last.buf = last.pre.buf
           /\ last.nalloc = 0 /\ last.nfree = 0
           /\ (last.threw = "none") =>
                 (cur.elems = <<last.x>> /\ last.ret = Cursor(last.pre.buf, 0))
           /\ (last.threw # "none") => cur = last.pre

C18_Witness ==
  /\ last.op = "EmplaceBack" /\ last.threw = "none" /\ T.name = "A"
  /\ last.pre.size = 0 /\ last.pre.cap = 3 /\ Capacity(v) = 3 /\ Size(v) = 1

\* C19: the capacity (and the buffer) is unchanged by PopBack, Erase,
\* Resize(n) with n <= capacity, Reserve(c) with c <= capacity, PushBack /
\* EmplaceBack / Emplace / Insert with size < capacity and copy assignment
\* from a vector with size <= capacity, whether the call succeeds or fails;
\* no call other than Swap, move assignment and being moved from lowers the
\* capacity.
C19_CapacityFrame ==
  LET cur == Cur
      framed == \/ last.op \in {"PopBack", "Erase", "CopyAssignSelf", "MoveAssignSelf"}
                \/ last.op \in {"Resize", "Reserve"} /\ last.n <= last.pre.cap
                \/ /\ last.op \in {"PushBack", "EmplaceBack", "Emplace", "Insert"}
                   /\ last.pre.size < last.pre.cap
                \/ last.op = "CopyAssign" /\ last.opre.size <= last.pre.cap
  IN /\ framed => (cur.cap = last.pre.cap /\ last.buf = last.pre.buf)
     /\ (last.op \notin RawOps \cup {"none", "Swap", "MoveAssign", "MovedFrom", "~Vector"}) =>
           cur.cap >= last.pre.cap

C19_Witness ==
  /\ last.op = "CopyAssign" /\ last.threw = "none" /\ T.name = "Str"
  /\ last.pre.size = 3 /\ last.pre.cap = 4 /\ last.opre.size = 1 /\ Capacity(v) = 4

\* What C20 says of a move: the source is left with a null buffer and capacity
\* 0, the destination holds what the source held, and the buffer the
\* destination held before is released exactly once.
C20_MoveEffect ==
  /\ last.opost.buf = Null /\ last.opost.cap = 0
  /\ last.raw = [buffer_ |-> last.opre.buf, capacity_ |-> last.opre.cap]
  /\ last.nfree = (IF last.pre.buf = Null THEN 0 ELSE 1)
  /\ last.pre.buf \notin last.live
  /\ last.errs = {}

\* What C20 says of every RawMemory object: the buffer is null iff the
\* capacity is 0 (the storage of the vector, the destination and the source
\* of a RawMemory operation).
C20_NullIffEmpty ==
  /\ (GetAddress(v) = Null) <=> (Capacity(v) = 0)
  /\ (last.raw.buffer_ = Null) <=> (last.raw.capacity_ = 0)
  /\ (last.opost.buf = Null) <=> (last.opost.cap = 0)

\* C20 as stated: every RawMemory object has a null buffer iff its capacity
\* is 0, and after every move (move construction, move assignment) the source
\* has a null buffer and capacity 0 and the destination's previous buffer is
\* released exactly once.
C20_RawMemoryAsStated ==
  /\ C20_NullIffEmpty
  /\ (last.op \in {"RawMemory(&&)", "RawMemory=", "RawMemory=Self"}) => C20_MoveEffect

\* C20, amended: every RawMemory object has a null buffer iff its capacity is
\* 0; after a move from another object the source has a null buffer and
\* capacity 0, the destination holds the source's buffer and capacity and the
\* destination's previous buffer is released exactly once; a move assignment
\* of an object to itself leaves it as it was and releases nothing; Swap
\* exchanges the two objects and releases nothing.
C20_RawMemoryInvariant ==
  /\ C20_NullIffEmpty
  /\ (last.op \in {"RawMemory(&&)", "RawMemory="}) => C20_MoveEffect
  /\ (last.op = "RawMemory=Self") =>
        /\ last.raw = [buffer_ |-> last.pre.buf, capacity_ |-> last.pre.cap]
        /\ last.nfree = 0 /\ last.errs = {}
        /\ (last.pre.buf # Null) => last.pre.buf \in last.live
  /\ (last.op = "RawMemory::Swap") =>
        /\ last.raw = [buffer_ |-> last.opre.buf, capacity_ |-> last.opre.cap]
        /\ last.opost.buf = last.pre.buf /\ last.opost.cap = last.pre.cap
        /\ last.nfree = 0 /\ last.errs = {}
  /\ (last.op = "RawMemory(n)") =>
        /\ last.raw.capacity_ = (IF last.threw = "none" THEN last.n ELSE 0)
        /\ last.errs = {}

C20_Witness ==
  /\ last.op = "RawMemory=" /\ last.pre.cap = 2 /\ last.opre.cap = 1
  /\ last.raw.capacity_ = 1 /\ last.nfree = 1 /\ last.opost.buf = Null

====
